---- MODULE Spec2Model ----
(***************************************************************************)
(* Model of the knowledge-agent retrieval pipeline (src/app/gradio_app.py): *)
(* token chunker, per-session Chroma collections, ingestion, source         *)
(* listing, clearing, question answering, and the Gradio entry points.      *)
(*                                                                          *)
(* Python strings are modelled as sequences of pieces (characters for       *)
(* document text, literal fragments for formatted labels); a Python list    *)
(* of strings is a sequence of such sequences.                              *)
(***************************************************************************)
EXTENDS Integers, Sequences, FiniteSets, TLC

VARIABLES db, last, threads, ui, chunker

vars == <<db, last, threads, ui, chunker>>

----------------------------------------------------------------------------
\* Bounds of the model.

\* Ingestion is offered only while the store holds fewer records than this.
MaxRecords == 3
\* The same for the store under overlapping ingestions.
MaxRaceRecords == 2
\* Largest top_k handed to answer_question.
MaxTopK == 2
\* Records in the store up to which the interface's callbacks ingest.
MaxUiRecords == 2
\* Longest text and largest chunk_size handed to the chunker on its own.
MaxSplitLen == 4
MaxSplitSize == 3
\* Window width and overlap used by ingestion.  The source sets 1000 and 150
\* (gradio_app.py lines 30-31); the model keeps overlap < width at a scale
\* where a text of three characters spans two windows.
MAX_CHUNK_TOKENS == 2
CHUNK_OVERLAP_TOKENS == 1

----------------------------------------------------------------------------
\* Text, tokens and the chunker.

Chars == {"a", " "}
Whitespace == {" "}

\* The element of a one-element set.  TheOnly({e(x) : x \in {v}}) is
\* LET x == v IN e(x) with v evaluated once.
TheOnly(S) == CHOOSE x \in S : TRUE

Max(a, b) == IF a >= b THEN a ELSE b
Min(a, b) == IF a <= b THEN a ELSE b

TextsUpTo(n) == UNION {[1..k -> Chars] : k \in 0..n}

\* tiktoken encoding at the scale of one token per character: each character
\* has its own token id, and decode maps the id back.
encode_char(c) == IF c = "a" THEN 64 ELSE 220
decode_token(t) == IF t = 64 THEN "a" ELSE " "
encode(text) == [i \in 1..Len(text) |-> encode_char(text[i])]
decode(tokens) == [i \in 1..Len(tokens) |-> decode_token(tokens[i])]

RECURSIVE lstrip(_)
lstrip(s) == IF s # <<>> /\ Head(s) \in Whitespace THEN lstrip(Tail(s)) ELSE s

RECURSIVE rstrip(_)
rstrip(s) ==
    IF s # <<>> /\ s[Len(s)] \in Whitespace
    THEN rstrip(SubSeq(s, 1, Len(s) - 1))
    ELSE s

\* str.strip()
strip(s) == rstrip(lstrip(s))

\* tokens[start:end] with 0-based, end-exclusive Python indices.
Slice(tokens, start, end) == SubSeq(tokens, start + 1, Min(end, Len(tokens)))

\* A step that leaves a gap between windows whenever overlap > 0.
WindowStepGap(chunk_size, overlap) == chunk_size + overlap

\* step = max(chunk_size - overlap, 1)
WindowStep(chunk_size, overlap) == Max(chunk_size - overlap, 1)

\* The loop of split_text_by_tokens from window start `start` on; the result
\* is the sequence of emitted windows, each with the token range it was cut
\* from and its decoded, stripped text.
RECURSIVE WindowsFrom(_, _, _, _)
WindowsFrom(tokens, start, chunk_size, step) ==
    IF start >= Len(tokens)
    THEN <<>>
    ELSE LET end == start + chunk_size
             chunk_tokens == Slice(tokens, start, end)
             chunk_text == strip(decode(chunk_tokens))
             emitted ==
                 IF chunk_tokens # <<>> /\ chunk_text # <<>>
                 THEN << [start |-> start,
                          end |-> Min(end, Len(tokens)),
                          text |-> chunk_text] >>
                 ELSE <<>>
         IN  IF chunk_tokens # <<>> /\ end >= Len(tokens)
             THEN emitted
             ELSE emitted \o WindowsFrom(tokens, start + step, chunk_size, step)

split_windows(text, chunk_size, overlap) ==
    WindowsFrom(encode(text), 0, chunk_size, WindowStep(chunk_size, overlap))

split_text_by_tokens(text, chunk_size, overlap) ==
    LET w == split_windows(text, chunk_size, overlap)
    IN  [i \in 1..Len(w) |-> w[i].text]

----------------------------------------------------------------------------
\* The chunker on its own: Init draws (text, chunk_size, overlap), Split
\* applies split_text_by_tokens.

ChunkerOff == [pc |-> "off", text |-> <<>>, chunk_size |-> 1, overlap |-> 0,
               windows |-> <<>>]

Split ==
    /\ chunker.pc = "input"
    /\ chunker' = [chunker EXCEPT
           !.pc = "done",
           !.windows = split_windows(chunker.text, chunker.chunk_size,
                                     chunker.overlap)]
    /\ UNCHANGED <<db, last, threads, ui>>

----------------------------------------------------------------------------
\* Inputs.

Sessions == {"sA", "sB"}
SourceTypes == {"txt"}
\* The documents offered for ingestion, each a source name with its text: one
\* chunk, two chunks, one chunk followed by a blank window, blank, empty.
Documents == {
    [source_name |-> "doc1", text |-> <<"a">>],
    [source_name |-> "doc2", text |-> <<"a", " ", "a">>],
    [source_name |-> "doc1", text |-> <<"a", " ", " ">>],
    [source_name |-> "doc2", text |-> <<" ">>],
    [source_name |-> "doc2", text |-> <<>>] }
Questions == {<<"q">>, <<" ">>}
\* What the two external services do during one call: the embedding request
\* fails or succeeds, and the chat request fails, returns empty content, or
\* returns a text.
Services == {
    [embed_ok |-> FALSE, reply |-> "error"],
    [embed_ok |-> TRUE, reply |-> "error"],
    [embed_ok |-> TRUE, reply |-> "empty"],
    [embed_ok |-> TRUE, reply |-> "reply1"] }

\* Code-point order of the strings that occur in source labels.
StrOrder == <<"doc1", "doc1.docx", "doc1.exe", "doc1.pdf", "doc1.txt", "doc2",
              "docx", "exe", "pdf", "txt", "u1", "u2", "web", "youtube">>
StrRank(s) == CHOOSE i \in 1..Len(StrOrder) : StrOrder[i] = s

Digits == <<"0", "1", "2", "3", "4", "5", "6", "7", "8", "9">>

\* str(n) for a non-negative integer: its decimal digits.
RECURSIVE str(_)
str(n) == IF n < 10
          THEN <<Digits[n + 1]>>
          ELSE str(n \div 10) \o <<Digits[(n % 10) + 1]>>

----------------------------------------------------------------------------
\* The Chroma store: db maps the name of every existing collection to its
\* set of records.

\* One collection name shared by every session (the unused COLLECTION_NAME).
collection_name_shared(session_id) == <<"knowledge_agent">>

\* f"knowledge_agent_{session_id}"
collection_name(session_id) == <<"knowledge_agent_", session_id>>

\* client.get_or_create_collection(name=...)
get_or_create_collection(d, name) ==
    IF name \in DOMAIN d THEN d ELSE d @@ (name :> {})

\* client.delete_collection(name=...): raises when there is no such collection.
delete_collection(d, name) ==
    IF name \in DOMAIN d
    THEN [raised |-> FALSE, db |-> [n \in (DOMAIN d) \ {name} |-> d[n]]]
    ELSE [raised |-> TRUE, db |-> d]

\* get_chroma_collection(session_id): the store after the call; the handle is
\* the collection's name.
get_chroma_collection(d, session_id) ==
    get_or_create_collection(d, collection_name(session_id))

\* collection.count() as a caller observes it through get_chroma_collection.
Count(d, session_id) ==
    LET name == collection_name(session_id)
    IN  IF name \in DOMAIN d THEN Cardinality(d[name]) ELSE 0

Records(d, session_id) ==
    LET name == collection_name(session_id)
    IN  IF name \in DOMAIN d THEN d[name] ELSE {}

SeqRange(s) == {s[i] : i \in 1..Len(s)}

\* An add that replaces the collection's contents.
collection_add_replacing(records, new) == SeqRange(new)

\* An add that replaces the record stored under an id it is given again.
collection_upsert(records, new) ==
    {e \in records : \A i \in 1..Len(new) : new[i].id # e.id} \cup SeqRange(new)

\* collection.add(ids, documents, embeddings, metadatas): Chroma's add inserts
\* the records whose id is new and leaves a record already stored under an id
\* as it is (it logs the duplicate and raises nothing).
collection_add(records, new) ==
    records \cup {r \in SeqRange(new) : \A e \in records : e.id # r.id}

\* The embedding service's vector for a text.
Embedding(text) == <<"vec", text>>

\* embed_texts: no request for an empty list, otherwise one batched request
\* that returns every vector or raises.
embed_texts(texts, service_ok) ==
    IF texts = <<>>
    THEN [raised |-> FALSE, calls |-> 0, vectors |-> <<>>]
    ELSE IF service_ok
    THEN [raised |-> FALSE, calls |-> 1,
          vectors |-> [i \in 1..Len(texts) |-> Embedding(texts[i])]]
    ELSE [raised |-> TRUE, calls |-> 1, vectors |-> <<>>]

----------------------------------------------------------------------------
\* ingest_source_text, in the two parts a second thread can come between:
\* everything up to the read of collection.count() and the id assignment
\* (lines 78-91), and collection.add (line 92).

\* Ids that start one below the count that was read.
first_id_below(existing_count) == Max(existing_count - 1, 0)

\* The first id of an ingestion: existing_count + 0.
first_id(existing_count) == existing_count

NoPlan == [name |-> <<>>, base |-> 0, n |-> 0, ids |-> <<>>, records |-> <<>>]

ingest_plan(d, session_id, source_name, source_type, text, embed_ok) ==
    IF strip(text) = <<>>
    THEN [status |-> "raised",
          error |-> "Loaded content is empty and cannot be ingested.",
          embed_calls |-> 0, db |-> d, plan |-> NoPlan]
    ELSE
    LET chunks == split_text_by_tokens(text, MAX_CHUNK_TOKENS, CHUNK_OVERLAP_TOKENS)
    IN
    IF chunks = <<>>
    THEN [status |-> "raised",
          error |-> "No chunks were created from this source.",
          embed_calls |-> 0, db |-> d, plan |-> NoPlan]
    ELSE
    LET embeddings == embed_texts(chunks, embed_ok)
    IN
    IF embeddings.raised
    THEN [status |-> "raised", error |-> "embedding service error",
          embed_calls |-> embeddings.calls, db |-> d, plan |-> NoPlan]
    ELSE
    LET d1 == get_chroma_collection(d, session_id)
        name == collection_name(session_id)
        existing_count == Cardinality(d1[name])
        ids == [i \in 1..Len(chunks) |->
                    <<"doc_">> \o str(first_id(existing_count) + (i - 1))]
        records == [i \in 1..Len(chunks) |->
                    [id |-> ids[i],
                     document |-> chunks[i],
                     source |-> source_name,
                     source_type |-> source_type,
                     chunk_index |-> i - 1]]
    IN  [status |-> "ok", error |-> "", embed_calls |-> embeddings.calls,
         db |-> d1,
         plan |-> [name |-> name, base |-> existing_count, n |-> Len(chunks),
                   ids |-> ids, records |-> records]]

\* An add that stores the first record only.
ingest_add_first_only(d, plan, handle_valid) ==
    [status |-> "ok", error |-> "", n |-> plan.n,
     db |-> [d EXCEPT ![plan.name] = @ \cup {plan.records[1]}]]

\* collection.add(...) on the handle taken in ingest_plan, then return
\* len(chunks).  A handle whose collection has been deleted since raises.
ingest_add(d, plan, handle_valid) ==
    IF ~handle_valid \/ plan.name \notin DOMAIN d
    THEN [status |-> "raised", error |-> "collection does not exist",
          n |-> 0, db |-> d]
    ELSE [status |-> "ok", error |-> "", n |-> plan.n,
          db |-> [d EXCEPT ![plan.name] = collection_add(@, plan.records)]]

\* ingest_source_text run without interruption.
ingest_source_text(d, session_id, source_name, source_type, text, embed_ok) ==
    TheOnly({
        IF p.status = "raised"
        THEN [status |-> "raised", error |-> p.error, n |-> 0,
              embed_calls |-> p.embed_calls, plan |-> p.plan, db |-> p.db]
        ELSE TheOnly({
                 [status |-> a.status, error |-> a.error, n |-> a.n,
                  embed_calls |-> p.embed_calls, plan |-> p.plan, db |-> a.db] :
                 a \in {ingest_add(p.db, p.plan, TRUE)} }) :
        p \in {ingest_plan(d, session_id, source_name, source_type, text,
                           embed_ok)} })

----------------------------------------------------------------------------
\* list_sources

\* f"{meta.get('source')} ({meta.get('source_type')})"
source_label(meta) == <<meta.source, " (", meta.source_type, ")">>

\* Order of two labels as Python compares the formatted strings.
LabelLess(a, b) ==
    \/ StrRank(a[1]) < StrRank(b[1])
    \/ a[1] = b[1] /\ StrRank(a[3]) < StrRank(b[3])

RECURSIVE sorted(_)
sorted(S) ==
    IF S = {}
    THEN <<>>
    ELSE LET m == CHOOSE x \in S : \A y \in S : y = x \/ LabelLess(x, y)
         IN  <<m>> \o sorted(S \ {m})

list_sources(d, session_id) ==
    LET d1 == get_chroma_collection(d, session_id)
        records == d1[collection_name(session_id)]
    IN  IF Cardinality(records) = 0
        THEN [db |-> d1, value |-> <<>>]
        ELSE [db |-> d1, value |-> sorted({source_label(r) : r \in records})]

----------------------------------------------------------------------------
\* clear_database

\* clear_database with the delete's exception left to propagate.
clear_database_unguarded(d, session_id) ==
    LET name == collection_name(session_id)
        del == delete_collection(d, name)
    IN  IF del.raised
        THEN [status |-> "raised", db |-> d]
        ELSE [status |-> "ok", db |-> get_or_create_collection(del.db, name)]

\* delete_collection inside try/except Exception: pass, then
\* get_or_create_collection.
clear_database(d, session_id) ==
    LET name == collection_name(session_id)
        del == delete_collection(d, name)
        d1 == IF del.raised THEN d ELSE del.db
    IN  [status |-> "ok", db |-> get_or_create_collection(d1, name)]

----------------------------------------------------------------------------
\* answer_question

\* Labels numbered from 0 (enumerate without start=1).
citation_label_from_zero(idx, meta) ==
    <<"[">> \o str(idx - 1) \o <<"] ", meta.source, " (", meta.source_type, ")">>

\* f"[{idx}] {source} ({source_type})"
citation_label(idx, meta) ==
    <<"[">> \o str(idx) \o <<"] ", meta.source, " (", meta.source_type, ")">>

\* sep.join(parts)
RECURSIVE join(_, _)
join(sep, parts) ==
    IF parts = <<>> THEN <<>>
    ELSE IF Len(parts) = 1 THEN parts[1]
    ELSE parts[1] \o sep \o join(sep, Tail(parts))

\* The orders in which collection.query can return k of the records: the
\* similarity ranking is the embedding service's and the index's business.
Rankings(records, k) ==
    {r \in [1..k -> records] : \A i, j \in 1..k : i # j => r[i] # r[j]}

\* collection.query(n_results=top_k): at most top_k records, at most all.
ResultSize(records, top_k) == Min(top_k, Cardinality(records))

\* answer_question from the embedding of the question on (lines 125-181).
answer_from_index(d1, question, ranking, embed_ok, reply) ==
    LET query_embedding == embed_texts(<<question>>, embed_ok)
    IN
    IF query_embedding.raised
    THEN [status |-> "raised", error |-> "embedding service error",
          answer |-> <<>>, citation_text |-> <<>>, retrieved |-> <<>>,
          embed_calls |-> query_embedding.calls, chat_calls |-> 0, db |-> d1]
    ELSE
    LET documents == [i \in 1..Len(ranking) |-> ranking[i].document]
        metadatas == ranking
    IN
    IF documents = <<>>
    THEN [status |-> "ok", error |-> "",
          answer |-> <<"I couldn't find relevant information in the current knowledge base.">>,
          citation_text |-> <<"No citations found.">>, retrieved |-> <<>>,
          embed_calls |-> query_embedding.calls, chat_calls |-> 0, db |-> d1]
    ELSE
    LET citations == [i \in 1..Len(documents) |-> citation_label(i, metadatas[i])]
        citation_text == join(<<"\n">>,
                              [i \in 1..Len(citations) |-> <<"- ">> \o citations[i]])
    IN
    IF reply = "error"
    THEN [status |-> "raised", error |-> "chat service error",
          answer |-> <<>>, citation_text |-> <<>>, retrieved |-> ranking,
          embed_calls |-> query_embedding.calls, chat_calls |-> 1, db |-> d1]
    ELSE [status |-> "ok", error |-> "",
          answer |-> IF reply = "empty" THEN <<"No answer returned.">> ELSE <<reply>>,
          citation_text |-> citation_text, retrieved |-> ranking,
          embed_calls |-> query_embedding.calls, chat_calls |-> 1, db |-> d1]

\* answer_question without the count check of lines 123-124.
answer_question_unchecked(d, session_id, question, ranking, embed_ok, reply) ==
    answer_from_index(get_chroma_collection(d, session_id), question, ranking,
                      embed_ok, reply)

\* answer_question; `ranking` is what collection.query returns for top_k.
answer_question(d, session_id, question, ranking, embed_ok, reply) ==
    LET d1 == get_chroma_collection(d, session_id)
    IN  IF Cardinality(d1[collection_name(session_id)]) = 0
        THEN [status |-> "raised", error |-> "No content has been ingested yet.",
              answer |-> <<>>, citation_text |-> <<>>, retrieved |-> <<>>,
              embed_calls |-> 0, chat_calls |-> 0, db |-> d1]
        ELSE answer_from_index(d1, question, ranking, embed_ok, reply)

----------------------------------------------------------------------------
\* State.  last is the outcome of the most recent call of a core function;
\* threads and ui belong to the specifications further down.

Threads == {"t1", "t2"}

NoLast == [op |-> "none", session |-> "", status |-> "", error |-> "",
           prior |-> "", again |-> FALSE, n |-> 0, base |-> 0, ids |-> <<>>,
           records |-> <<>>, embed_calls |-> 0, chat_calls |-> 0,
           top_k |-> 0, retrieved |-> <<>>, answer |-> <<>>,
           citation_text |-> <<>>, sources |-> <<>>, grew |-> 0]

\* A worker thread running ingest_source_text: pc is its position (idle,
\* counted = count() read and ids assigned, done = returned or raised), plan
\* its local variables, handle_valid whether its collection handle still
\* refers to an existing collection.  peers and fresh record the overlap:
\* peers are the threads that read count() on the same unchanged collection
\* while neither had added, and fresh is lost at any add or clear on the
\* collection after the read.
IdleThread == [pc |-> "idle", session |-> "", plan |-> NoPlan,
               handle_valid |-> FALSE, peers |-> {}, fresh |-> FALSE,
               status |-> ""]

\* ui is what the last callback of the interface gave back: the two outputs
\* of the entry point, whether an exception left it, and whether the refresh
\* chained after it raised.
NoUi == [entry |-> "none", session |-> "", escaped |-> FALSE, status |-> <<>>,
         second |-> <<>>, refresh_raised |-> FALSE]

\* What a session's collection looks like before a call.
Prior(d, session_id) ==
    IF collection_name(session_id) \notin DOMAIN d THEN "absent"
    ELSE IF Count(d, session_id) = 0 THEN "empty"
    ELSE "records"

TotalRecords(d) ==
    LET RECURSIVE Sum(_)
        Sum(names) == IF names = {} THEN 0
                      ELSE LET n == CHOOSE x \in names : TRUE
                           IN  Cardinality(d[n]) + Sum(names \ {n})
    IN  Sum(DOMAIN d)

StoreHasRoom(d) == TotalRecords(d) < MaxRecords

Init ==
    /\ db = << >>
    /\ last = NoLast
    /\ threads = [t \in Threads |-> IdleThread]
    /\ ui = NoUi
    /\ chunker = ChunkerOff

----------------------------------------------------------------------------
\* The core functions called one at a time.

IngestSourceText(s, source_name, source_type, text, embed_ok) ==
    /\ StoreHasRoom(db)
    /\ \E r \in {ingest_source_text(db, s, source_name, source_type, text, embed_ok)} :
           /\ db' = r.db
           /\ last' = [NoLast EXCEPT
                  !.op = "ingest", !.session = s, !.status = r.status,
                  !.error = r.error, !.prior = Prior(db, s), !.n = r.n,
                  !.base = r.plan.base, !.ids = r.plan.ids,
                  !.records = r.plan.records, !.embed_calls = r.embed_calls,
                  !.grew = Count(r.db, s) - Count(db, s)]
    /\ UNCHANGED <<threads, ui, chunker>>

ListSources(s) ==
    /\ \E r \in {list_sources(db, s)} :
           /\ db' = r.db
           /\ last' = [NoLast EXCEPT
                  !.op = "list_sources", !.session = s, !.status = "ok",
                  !.prior = Prior(db, s), !.sources = r.value]
    /\ UNCHANGED <<threads, ui, chunker>>

\* The threads after a clear of session s: a deleted collection invalidates
\* the handles taken on it.
AfterClear(ts, s) ==
    [t \in Threads |->
        IF ts[t].pc # "idle" /\ ts[t].session = s
        THEN [ts[t] EXCEPT !.handle_valid = FALSE, !.fresh = FALSE]
        ELSE ts[t]]

ClearDatabase(s) ==
    /\ \E r \in {clear_database(db, s)} :
           /\ db' = r.db
           /\ last' = [NoLast EXCEPT
                  !.op = "clear", !.session = s, !.status = r.status,
                  !.prior = Prior(db, s),
                  !.again = (last.op = "clear" /\ last.session = s)]
           /\ threads' = AfterClear(threads, s)
    /\ UNCHANGED <<ui, chunker>>

AnswerQuestion(s, question, top_k, embed_ok, reply) ==
    /\ \E ranking \in Rankings(Records(db, s), ResultSize(Records(db, s), top_k)) :
         \E r \in {answer_question(db, s, question, ranking, embed_ok, reply)} :
             /\ db' = r.db
             /\ last' = [NoLast EXCEPT
                    !.op = "answer", !.session = s, !.status = r.status,
                    !.error = r.error, !.prior = Prior(db, s), !.top_k = top_k,
                    !.retrieved = r.retrieved, !.answer = r.answer,
                    !.citation_text = r.citation_text,
                    !.embed_calls = r.embed_calls, !.chat_calls = r.chat_calls]
    /\ UNCHANGED <<threads, ui, chunker>>

Next ==
    \/ \E s \in Sessions, doc \in Documents, source_type \in SourceTypes,
          embed_ok \in BOOLEAN :
         IngestSourceText(s, doc.source_name, source_type, doc.text, embed_ok)
    \/ \E s \in Sessions : ListSources(s)
    \/ \E s \in Sessions : ClearDatabase(s)
    \/ \E s \in Sessions, top_k \in 1..MaxTopK, svc \in Services :
         AnswerQuestion(s, <<"q">>, top_k, svc.embed_ok, svc.reply)

Spec == Init /\ [][Next]_vars

----------------------------------------------------------------------------
\* Overlapping ingestions: each thread runs ingest_source_text in two steps,
\* IngestBegin up to the read of count() and IngestAdd for collection.add,
\* and the other functions run between them.

\* A thread whose call has returned or raised is idle again; its record is
\* kept, as done, while a peer that read the same count has yet to add.
Returned(thread, status, peer_pending) ==
    IF peer_pending
    THEN [thread EXCEPT !.pc = "done", !.status = status]
    ELSE IdleThread

IngestBegin(t, s, source_name, source_type, text, embed_ok) ==
    /\ threads[t].pc \in {"idle", "done"}
    /\ TotalRecords(db) < MaxRaceRecords
    /\ \E p \in {ingest_plan(db, s, source_name, source_type, text, embed_ok)} :
       LET peers == {u \in Threads \ {t} :
                        /\ threads[u].pc = "counted"
                        /\ threads[u].plan.name = p.plan.name
                        /\ threads[u].fresh}
       IN  /\ db' = p.db
           /\ threads' =
                  [u \in Threads |->
                      IF u = t
                      THEN IF p.status = "raised"
                           THEN IdleThread
                           ELSE [pc |-> "counted", session |-> s,
                                 plan |-> p.plan, handle_valid |-> TRUE,
                                 peers |-> peers, fresh |-> TRUE,
                                 status |-> ""]
                      ELSE IF p.status = "ok" /\ u \in peers
                      THEN [threads[u] EXCEPT !.peers = @ \cup {t}]
                      ELSE [threads[u] EXCEPT !.peers = @ \ {t}]]
           /\ last' = [NoLast EXCEPT
                  !.op = IF p.status = "raised" THEN "ingest" ELSE "ingest_begin",
                  !.session = s, !.status = p.status, !.error = p.error]
    /\ UNCHANGED <<ui, chunker>>

IngestAdd(t) ==
    /\ threads[t].pc = "counted"
    /\ \E a \in {ingest_add(db, threads[t].plan, threads[t].handle_valid)} :
       LET me == threads[t]
       IN  /\ db' = a.db
           /\ threads' =
                  [u \in Threads |->
                      IF u = t
                      THEN Returned(me, a.status,
                                    \E v \in me.peers : threads[v].pc = "counted")
                      ELSE IF threads[u].pc = "done" /\ u \in me.peers
                      THEN Returned(threads[u], threads[u].status, FALSE)
                      ELSE IF /\ threads[u].pc = "counted"
                              /\ threads[u].plan.name = me.plan.name
                              /\ a.status = "ok"
                      THEN [threads[u] EXCEPT !.fresh = FALSE]
                      ELSE threads[u]]
           /\ last' = [NoLast EXCEPT
                  !.op = "ingest", !.session = me.session, !.status = a.status,
                  !.error = a.error, !.n = a.n,
                  !.grew = Count(a.db, me.session) - Count(db, me.session)]
    /\ UNCHANGED <<ui, chunker>>

NextRace ==
    \/ \E t \in Threads, s \in Sessions, doc \in Documents,
          source_type \in SourceTypes, embed_ok \in BOOLEAN :
         IngestBegin(t, s, doc.source_name, source_type, doc.text, embed_ok)
    \/ \E t \in Threads : IngestAdd(t)
    \/ \E s \in Sessions : ListSources(s)
    \/ \E s \in Sessions : ClearDatabase(s)
    \/ \E s \in Sessions : AnswerQuestion(s, <<"q">>, 1, TRUE, "reply1")

SpecRace == Init /\ [][NextRace]_vars

----------------------------------------------------------------------------
\* Properties of the core functions called one at a time (Spec).

IdsOf(records) == {r.id : r \in records}

\* C3. Under serialized ingest and clear, the ids of a session's records are
\* pairwise distinct, and an ingest assigns doc_<count>, ..., doc_<count+n-1>
\* for the count it read, none of which is already stored.
IdsUniqueWhenSerialized ==
    [][/\ \A s \in Sessions : \A r1, r2 \in Records(db', s) :
              r1.id = r2.id => r1 = r2
       /\ (last'.op = "ingest" /\ last'.status = "ok") =>
              /\ last'.base = Count(db, last'.session)
              /\ last'.ids = [i \in 1..last'.n |->
                                 <<"doc_">> \o str(Count(db, last'.session) + i - 1)]
              /\ \A i \in 1..last'.n :
                    last'.ids[i] \notin IdsOf(Records(db, last'.session))
              /\ IdsOf(Records(db', last'.session)) =
                    IdsOf(Records(db, last'.session)) \cup SeqRange(last'.ids)]_vars

\* C3 witness: a two-chunk ingest into a session that already held a record.
IngestedTwoOntoRecords ==
    /\ last.op = "ingest"
    /\ last.status = "ok"
    /\ last.n = 2
    /\ last.base >= 1

\* C4. clear_database returns normally from any prior state and leaves the
\* session with count 0 and no sources; a clear that follows a clear of the
\* same session leaves the store as it is.
ClearEmptiesSession ==
    [][last'.op = "clear" =>
         /\ last'.status = "ok"
         /\ collection_name(last'.session) \in DOMAIN db'
         /\ Count(db', last'.session) = 0
         /\ list_sources(db', last'.session).value = <<>>
         /\ (last.op = "clear" /\ last.session = last'.session) => db' = db]_vars

\* C4 witness: a second clear of a session, while the other session holds
\* records.
ClearedTwice ==
    /\ last.op = "clear"
    /\ last.again
    /\ last.prior = "empty"
    /\ last.status = "ok"
    /\ \E s \in Sessions : s # last.session /\ Count(db, s) > 0

\* C5. answer_question on a session whose count is 0 raises the
\* empty-knowledge-base error before any embedding or chat request, and
\* leaves every collection's records as they were.
AnswerOnEmptyFailsFirst ==
    [][(last'.op = "answer" /\ Count(db, last'.session) = 0) =>
         /\ last'.status = "raised"
         /\ last'.error = "No content has been ingested yet."
         /\ last'.embed_calls = 0
         /\ last'.chat_calls = 0
         /\ \A s \in Sessions : Records(db', s) = Records(db, s)]_vars

\* C5 witness: answer was asked of a session cleared after an ingest.
AnsweredOnEmpty ==
    /\ last.op = "answer"
    /\ last.prior = "empty"
    /\ last.status = "raised"

\* The lines of a text: its pieces split at "\n".
RECURSIVE Lines(_)
Lines(text) ==
    IF \A i \in 1..Len(text) : text[i] # "\n"
    THEN <<text>>
    ELSE LET k == CHOOSE i \in 1..Len(text) :
                      text[i] = "\n" /\ \A j \in 1..(i - 1) : text[j] # "\n"
         IN  <<SubSeq(text, 1, k - 1)>> \o Lines(SubSeq(text, k + 1, Len(text)))

\* "[i] <source> (<source_type>)"
ExpectedLabel(i, record) ==
    <<"[">> \o str(i) \o <<"] ", record.source, " (", record.source_type, ")">>

Answered == last.op = "answer" /\ last.status = "ok" /\ last.retrieved # <<>>

\* C6 as stated: the citations answer_question returns are the labels
\* "[i] <source> (<source_type>)" themselves, one per retrieved record.
CitationsAreBareLabels ==
    Answered =>
        Lines(last.citation_text) =
            [i \in 1..Len(last.retrieved) |-> ExpectedLabel(i, last.retrieved[i])]

\* C6 as amended. When answer_question retrieves n records from a non-empty
\* session, n = min(top_k, count), and it returns a citation block of n lines,
\* the i-th being "- [i] <source> (<source_type>)" for the i-th retrieved
\* record, whatever the chat service answered; every cited record is stored
\* in that session; a session holding the single chunk of doc1/txt yields
\* exactly "- [1] doc1 (txt)".
CitationBlockMatchesRetrieval ==
    Answered =>
        /\ Len(last.retrieved) = Min(last.top_k, Count(db, last.session))
        /\ Lines(last.citation_text) =
               [i \in 1..Len(last.retrieved) |->
                   <<"- ">> \o ExpectedLabel(i, last.retrieved[i])]
        /\ \A i \in 1..Len(last.retrieved) :
               last.retrieved[i] \in Records(db, last.session)
        /\ (\E r \in Records(db, last.session) :
               /\ Records(db, last.session) = {r}
               /\ r.source = "doc1"
               /\ r.source_type = "txt")
           => last.citation_text = <<"- ", "[", "1", "] ", "doc1", " (", "txt", ")">>

\* C6 witness: two of three stored records were retrieved, from two sources,
\* and the chat service returned empty content.
AnsweredWithTwoOfThree ==
    /\ Answered
    /\ Len(last.retrieved) = 2
    /\ Count(db, last.session) = 3
    /\ last.retrieved[1].source # last.retrieved[2].source
    /\ last.answer = <<"No answer returned.">>

\* C9. A successful ingest that returns n raises the session's count by
\* exactly n and keeps every record stored before; no collection's count
\* drops except by a clear of that session.
GrowthWithoutOverwrite ==
    [][/\ (last'.op = "ingest" /\ last'.status = "ok") =>
              /\ Count(db', last'.session) = Count(db, last'.session) + last'.n
              /\ Records(db, last'.session) \subseteq Records(db', last'.session)
       /\ \A s \in Sessions :
              Count(db', s) < Count(db, s) =>
                  last'.op = "clear" /\ last'.session = s]_vars

\* C9 witness: an ingest of one chunk into a session that held two or more.
IngestedOntoTwo ==
    /\ last.op = "ingest"
    /\ last.status = "ok"
    /\ last.n = 1
    /\ last.base >= 2

----------------------------------------------------------------------------
\* Properties of overlapping ingestions (SpecRace).

\* C1. An operation on one session leaves every other session's collection
\* as it was: neither created nor deleted, no record added, changed or
\* removed, its source list the same; a session with count 0 still has
\* count 0 and no sources after an ingest into another session.
SessionIsolation ==
    [][\A s \in Sessions :
           s # last'.session =>
               /\ Records(db', s) = Records(db, s)
               /\ (collection_name(s) \in DOMAIN db') =
                      (collection_name(s) \in DOMAIN db)
               /\ list_sources(db', s).value = list_sources(db, s).value
               /\ Count(db, s) = 0 =>
                      /\ Count(db', s) = 0
                      /\ list_sources(db', s).value = <<>>]_vars

\* C1 witness: an ingest into sA has stored records while sB holds none and
\* a thread is between count() and add on sB.
IngestedBesideFreshSession ==
    /\ last.op = "ingest"
    /\ last.status = "ok"
    /\ last.session = "sA"
    /\ Count(db, "sA") > 0
    /\ Count(db, "sB") = 0
    /\ list_sources(db, "sB").value = <<>>
    /\ \E t \in Threads : threads[t].pc = "counted" /\ threads[t].session = "sB"

\* Thread t performs its add in this step, after thread u, which read
\* count() on the same unchanged collection before either added, has added
\* and returned.
SecondAdd(t, u) ==
    /\ t # u
    /\ threads[t].pc = "counted"
    /\ threads'[t].pc # "counted"
    /\ last'.op = "ingest"
    /\ last'.status = "ok"
    /\ threads[u].pc = "done"
    /\ threads[u].status = "ok"
    /\ u \in threads[t].peers
    /\ t \in threads[u].peers

\* C10 as stated: both ingestions computed the same base and collide on an
\* id, a colliding id now holds the later ingestion's record in place of the
\* earlier one's, and the index holds fewer records than the two chunk
\* counts together.
RaceOverwritesEarlierRecords ==
    [][\A t, u \in Threads :
           SecondAdd(t, u) =>
               LET P == threads[t].plan
                   Q == threads[u].plan
                   s == threads[t].session
               IN  /\ P.base = Q.base
                   /\ SeqRange(P.ids) \cap SeqRange(Q.ids) # {}
                   /\ \E i \in 1..P.n :
                          /\ P.ids[i] \in SeqRange(Q.ids)
                          /\ P.records[i] \in Records(db', s)
                   /\ Count(db', s) < P.n + Q.n]_vars

\* C10 as amended.  Both ingestions computed the same base and collide on an
\* id, and both return their full chunk count; the records added first stay
\* as they are and the later add's records under a colliding id are dropped
\* without an error, so the index has grown from the base by the larger of
\* the two chunk counts, fewer than the two counts together.
RaceDropsLaterRecords ==
    [][\A t, u \in Threads :
           SecondAdd(t, u) =>
               LET P == threads[t].plan
                   Q == threads[u].plan
                   s == threads[t].session
               IN  /\ P.base = Q.base
                   /\ SeqRange(P.ids) \cap SeqRange(Q.ids) # {}
                   /\ last'.n = P.n
                   /\ \A i \in 1..Q.n : Q.records[i] \in Records(db', s)
                   /\ \A i \in 1..P.n :
                          (P.ids[i] \in SeqRange(Q.ids)
                              /\ P.records[i] \notin SeqRange(Q.records))
                          => P.records[i] \notin Records(db', s)
                   /\ Count(db', s) = P.base + Max(P.n, Q.n)
                   /\ Count(db', s) - P.base < P.n + Q.n]_vars

\* C10 witness: an ingest returned more chunks than the index grew by.
IngestReportedMoreThanStored ==
    /\ last.op = "ingest"
    /\ last.status = "ok"
    /\ last.grew < last.n

----------------------------------------------------------------------------
\* The chunker on its own (SpecChunk).

InitChunk ==
    /\ db = << >>
    /\ last = NoLast
    /\ threads = [t \in Threads |-> IdleThread]
    /\ ui = NoUi
    /\ chunker \in {[pc |-> "input", text |-> text, chunk_size |-> chunk_size,
                     overlap |-> overlap, windows |-> <<>>] :
                        text \in TextsUpTo(MaxSplitLen),
                        chunk_size \in 1..MaxSplitSize,
                        overlap \in 0..MaxSplitSize}

SpecChunk == InitChunk /\ [][Split]_vars

\* Token position i (0-based) lies inside an emitted window.
Covered(i) ==
    \E k \in 1..Len(chunker.windows) :
        chunker.windows[k].start <= i /\ i < chunker.windows[k].end

SplitDone ==
    /\ chunker.pc = "done"
    /\ 0 <= chunker.overlap
    /\ chunker.overlap < chunker.chunk_size

\* C7 as stated: for a non-empty token sequence and 0 <= overlap < chunk_size
\* the chunker emits at least one chunk and every token position lies inside
\* an emitted window.
ChunkerCoversEveryToken ==
    (SplitDone /\ Len(encode(chunker.text)) >= 1) =>
        /\ Len(chunker.windows) >= 1
        /\ \A i \in 0..(Len(chunker.text) - 1) : Covered(i)

\* C7 as amended.  For 0 <= overlap < chunk_size every token that is not
\* whitespace lies inside an emitted window, and at least one chunk is emitted
\* exactly when the text has such a token; a window whose decoded text is all
\* whitespace is not emitted, and each emitted chunk is the stripped text of
\* its window.
ChunkerCoversNonBlankTokens ==
    SplitDone =>
        /\ \A i \in 0..(Len(chunker.text) - 1) :
               chunker.text[i + 1] \notin Whitespace => Covered(i)
        /\ (Len(chunker.windows) >= 1) = (strip(chunker.text) # <<>>)
        /\ \A k \in 1..Len(chunker.windows) :
               LET w == chunker.windows[k]
               IN  /\ w.text # <<>>
                   /\ w.text = strip(SubSeq(chunker.text, w.start + 1, w.end))
                   /\ w.end = Min(w.start + chunker.chunk_size, Len(chunker.text))

\* C7 witness: a split with 0 <= overlap < chunk_size emitted two or more
\* chunks and skipped a whitespace-only window, leaving a token position
\* outside every emitted window.
SplitSkippedBlankWindow ==
    /\ SplitDone
    /\ Len(chunker.windows) >= 2
    /\ \E i \in 0..(Len(chunker.text) - 1) : ~Covered(i)

----------------------------------------------------------------------------
\* The callbacks of the interface (SpecUI).  Every call that opens the index
\* (PersistentClient, get_or_create_collection) can fail; index_ok says
\* whether the call made by the core function succeeds, list_index_ok whether
\* the one made by the sources_markdown that follows does.

DEFAULT_TOP_K == 4

\* The markers that open a status, named by their code points.
CheckMark == "U+2705"
CrossMark == "U+274C"

\* url is the string as typed: the characters strip() looks at, and the
\* string as it is passed on as source name.
Urls == {
    [name |-> "", chars |-> <<>>],
    [name |-> " ", chars |-> <<" ">>],
    [name |-> "u1", chars |-> <<"u", "1">>] }

\* What a loader gives for the source: it raises, or returns a text.
Loads == {
    [ok |-> FALSE, text |-> <<>>],
    [ok |-> TRUE, text |-> <<"a">>],
    [ok |-> TRUE, text |-> <<" ">>] }

\* file_obj: None, or the path of an upload with its name and suffix.
None == [name |-> "None", suffix |-> <<>>]
Files == {
    [name |-> "doc1.pdf", suffix |-> <<".", "pdf">>],
    [name |-> "doc1.docx", suffix |-> <<".", "docx">>],
    [name |-> "doc1.txt", suffix |-> <<".", "txt">>],
    [name |-> "doc1.exe", suffix |-> <<".", "exe">>] }

\* suffix.replace(".", "")
replace_dot(suffix) ==
    LET NotDot(c) == c # "."
        rest == SelectSeq(suffix, NotDot)
    IN  IF rest = <<>> THEN "" ELSE rest[1]

sources_markdown(d, session_id, list_index_ok) ==
    IF ~list_index_ok
    THEN [raised |-> TRUE, value |-> <<>>, db |-> d]
    ELSE LET sources == list_sources(d, session_id)
         IN  [raised |-> FALSE,
              value |-> IF sources.value = <<>>
                        THEN <<"No sources ingested yet.">>
                        ELSE join(<<"\n">>,
                                  [i \in 1..Len(sources.value) |->
                                      <<"- ">> \o sources.value[i]]),
              db |-> sources.db]

\* return <status>, sources_markdown(session_id): the call is evaluated in
\* the return statement, outside any try block or inside the except handler.
return_with_sources(status, d, session_id, list_index_ok) ==
    TheOnly({
        [escaped |-> md.raised,
         status |-> IF md.raised THEN <<>> ELSE status,
         second |-> md.value,
         db |-> md.db] :
        md \in {sources_markdown(d, session_id, list_index_ok)} })

\* ingest_source_text on the loaded text, with the index call of line 85
\* failing when the index cannot be opened.
ingest_loaded(d, session_id, source_name, source_type, load, embed_ok, index_ok) ==
    IF ~load.ok
    THEN [status |-> "raised", error |-> "loader error", n |-> 0, db |-> d]
    ELSE TheOnly({
             IF r.status = "raised"
             THEN [status |-> "raised", error |-> r.error, n |-> 0, db |-> r.db]
             ELSE IF ~index_ok
             THEN [status |-> "raised", error |-> "index error", n |-> 0, db |-> d]
             ELSE [status |-> "ok", error |-> "", n |-> r.n, db |-> r.db] :
             r \in {ingest_source_text(d, session_id, source_name, source_type,
                                       load.text, embed_ok)} })

ingest_website(d, session_id, url, load, embed_ok, index_ok, list_index_ok) ==
    IF strip(url.chars) = <<>>
    THEN return_with_sources(<<"Please provide a website URL.">>, d, session_id,
                             list_index_ok)
    ELSE TheOnly({
             IF r.status = "ok"
             THEN return_with_sources(
                      <<CheckMark, " Ingested ">> \o str(r.n)
                          \o <<" chunks from website.">>,
                      r.db, session_id, list_index_ok)
             ELSE return_with_sources(
                      <<CrossMark, " Website ingest failed: ", r.error>>,
                      r.db, session_id, list_index_ok) :
             r \in {ingest_loaded(d, session_id, url.name, "web", load, embed_ok,
                                  index_ok)} })

ingest_youtube(d, session_id, url, load, embed_ok, index_ok, list_index_ok) ==
    IF strip(url.chars) = <<>>
    THEN return_with_sources(<<"Please provide a YouTube URL.">>, d, session_id,
                             list_index_ok)
    ELSE TheOnly({
             IF r.status = "ok"
             THEN return_with_sources(
                      <<CheckMark, " Ingested ">> \o str(r.n)
                          \o <<" chunks from YouTube transcript.">>,
                      r.db, session_id, list_index_ok)
             ELSE return_with_sources(
                      <<CrossMark, " YouTube ingest failed: ", r.error>>,
                      r.db, session_id, list_index_ok) :
             r \in {ingest_loaded(d, session_id, url.name, "youtube", load,
                                  embed_ok, index_ok)} })

\* read_ok: file_path.read_bytes() succeeds.  load is what the PDF or DOCX
\* loader does with the bytes; for .txt its text is the decoded content.
ingest_uploaded_file(d, session_id, file_obj, read_ok, load, embed_ok, index_ok, list_index_ok) ==
    IF file_obj = None
    THEN return_with_sources(<<"Please upload a file first.">>, d, session_id,
                             list_index_ok)
    ELSE
    LET suffix == file_obj.suffix
    IN  TheOnly({
        IF r.status = "ok"
        THEN return_with_sources(
                 <<CheckMark, " Ingested ">> \o str(r.n)
                     \o <<" chunks from ", file_obj.name, ".">>,
                 r.db, session_id, list_index_ok)
        ELSE return_with_sources(
                 <<CrossMark, " File ingest failed: ", r.error>>,
                 r.db, session_id, list_index_ok) :
        r \in {IF ~read_ok
               THEN [status |-> "raised", error |-> "read error", n |-> 0,
                     db |-> d]
               ELSE IF suffix \in {<<".", "pdf">>, <<".", "docx">>}
               THEN ingest_loaded(d, session_id, file_obj.name,
                                  replace_dot(suffix), load, embed_ok, index_ok)
               ELSE IF suffix = <<".", "txt">>
               THEN ingest_loaded(d, session_id, file_obj.name,
                                  replace_dot(suffix),
                                  [ok |-> TRUE, text |-> load.text], embed_ok,
                                  index_ok)
               ELSE [status |-> "raised",
                     error |-> "Unsupported file type. Use PDF, DOCX, or TXT.",
                     n |-> 0, db |-> d]} })

\* clear_database opens the index at line 112, before its own try block.
clear_db_action(d, session_id, index_ok) ==
    IF ~index_ok
    THEN [escaped |-> FALSE,
          status |-> <<CrossMark, " Failed to clear database: ", "index error">>,
          second |-> <<>>, db |-> d]
    ELSE LET r == clear_database(d, session_id)
         IN  [escaped |-> FALSE, status |-> <<CheckMark, " Database cleared.">>,
              second |-> <<>>, db |-> r.db]

ask_question(d, session_id, question, ranking, embed_ok, reply, index_ok) ==
    IF strip(question) = <<>>
    THEN [escaped |-> FALSE, status |-> <<"Please enter a question.">>,
          second |-> <<>>, db |-> d]
    ELSE IF ~index_ok
    THEN [escaped |-> FALSE,
          status |-> <<CrossMark, " Question answering failed: ", "index error">>,
          second |-> <<>>, db |-> d]
    ELSE LET r == answer_question(d, session_id, question, ranking, embed_ok,
                                  reply)
         IN  IF r.status = "raised"
             THEN [escaped |-> FALSE,
                   status |-> <<CrossMark, " Question answering failed: ",
                                r.error>>,
                   second |-> <<>>, db |-> r.db]
             ELSE [escaped |-> FALSE, status |-> r.answer,
                   second |-> r.citation_text, db |-> r.db]

\* The outcome r of entry point `entry` becomes the state.
Shown(entry, s, r) ==
    /\ db' = r.db
    /\ ui' = [NoUi EXCEPT !.entry = entry, !.session = s,
                          !.escaped = r.escaped, !.status = r.status,
                          !.second = r.second]
    /\ UNCHANGED <<last, threads, chunker>>

\* The interface is explored while the store holds fewer records than this.
UiHasRoom(d) == TotalRecords(d) < MaxUiRecords

IngestWebsite(s, url, load, embed_ok, index_ok, list_index_ok) ==
    /\ UiHasRoom(db)
    /\ \E r \in {ingest_website(db, s, url, load, embed_ok, index_ok,
                                list_index_ok)} :
           Shown("ingest_website", s, r)

IngestYoutube(s, url, load, embed_ok, index_ok, list_index_ok) ==
    /\ UiHasRoom(db)
    /\ \E r \in {ingest_youtube(db, s, url, load, embed_ok, index_ok,
                                list_index_ok)} :
           Shown("ingest_youtube", s, r)

IngestUploadedFile(s, file_obj, read_ok, load, embed_ok, index_ok, list_index_ok) ==
    /\ UiHasRoom(db)
    /\ \E r \in {ingest_uploaded_file(db, s, file_obj, read_ok, load,
                                      embed_ok, index_ok, list_index_ok)} :
           Shown("ingest_uploaded_file", s, r)

\* clear_btn.click(clear_db_action).then(sources_markdown): the status comes
\* from clear_db_action, the sources box from the refresh chained after it.
ClearDbAction(s, index_ok, list_index_ok) ==
    \E r \in {clear_db_action(db, s, index_ok)} :
      \E md \in {sources_markdown(r.db, s, list_index_ok)} :
        /\ db' = md.db
        /\ ui' = [NoUi EXCEPT !.entry = "clear_db_action", !.session = s,
                              !.escaped = r.escaped, !.status = r.status,
                              !.second = md.value,
                              !.refresh_raised = md.raised]
        /\ UNCHANGED <<last, threads, chunker>>

AskQuestion(s, question, embed_ok, reply, index_ok) ==
    \E ranking \in Rankings(Records(db, s),
                            ResultSize(Records(db, s), DEFAULT_TOP_K)) :
      \E r \in {ask_question(db, s, question, ranking, embed_ok, reply,
                               index_ok)} :
        Shown("ask_question", s, r)

NextUI ==
    \/ \E s \in Sessions, url \in Urls, load \in Loads,
          embed_ok, index_ok, list_index_ok \in BOOLEAN :
         IngestWebsite(s, url, load, embed_ok, index_ok, list_index_ok)
    \/ \E s \in Sessions, url \in Urls, load \in Loads,
          embed_ok, index_ok, list_index_ok \in BOOLEAN :
         IngestYoutube(s, url, load, embed_ok, index_ok, list_index_ok)
    \/ \E s \in Sessions, file_obj \in Files \cup {None}, load \in Loads,
          read_ok, embed_ok, index_ok, list_index_ok \in BOOLEAN :
         IngestUploadedFile(s, file_obj, read_ok, load, embed_ok, index_ok,
                            list_index_ok)
    \/ \E s \in Sessions, index_ok, list_index_ok \in BOOLEAN :
         ClearDbAction(s, index_ok, list_index_ok)
    \/ \E s \in Sessions, question \in Questions, svc \in Services,
          index_ok \in BOOLEAN :
         AskQuestion(s, question, svc.embed_ok, svc.reply, index_ok)

SpecUI == Init /\ [][NextUI]_vars

EntryPoints == {"ingest_website", "ingest_youtube", "ingest_uploaded_file",
                "clear_db_action", "ask_question"}

\* C8, as far as it says that nothing is raised: whatever fails (a loader,
\* the embedding service, the chat service, the index) and whatever the input
\* (blank included), no exception leaves a public entry point.
EntryPointsNeverRaise ==
    ui.entry \in EntryPoints => ~ui.escaped

====
